---- MODULE Spec2Model ----
(***************************************************************************)
(* Page-offset detection: the sampler (pdf_processor.select_sample_pages), *)
(* the consensus engine and mapping builder (offset_calculator) and the    *)
(* per-document pipeline (detect_offsets.process_single_pdf).              *)
(***************************************************************************)
EXTENDS Integers, Sequences, FiniteSets, TLC

(***************************************************************************)
(* Python floats.  A non-negative binary64 value is [bits, exp]: the bits  *)
(* (most significant first) read as a binary numeral, times 2^exp.  Zero   *)
(* is the empty bit string; every other value carries exactly Precision    *)
(* bits with a leading 1.  Every operation rounds to nearest, ties to      *)
(* even, as CPython's int/int, float*float and float+float do.             *)
(***************************************************************************)
Precision == 53

\* The w low bits of n, most significant first.
BitsOfWidth(n, w) == [k \in 1..w |-> (n \div 2^(w - k)) % 2]

StripZeros(b) ==
    IF \A k \in 1..Len(b) : b[k] = 0 THEN <<>>
    ELSE SubSeq(b, CHOOSE k \in 1..Len(b) : b[k] = 1 /\ \A j \in 1..(k - 1) : b[j] = 0,
                Len(b))

\* n >= 0 (below 2^30) in binary, no leading zero.
ToBits(n) == StripZeros(BitsOfWidth(n, 30))

RECURSIVE FromBits(_)
FromBits(b) ==
    IF b = <<>> THEN 0
    ELSE 2 * FromBits(SubSeq(b, 1, Len(b) - 1)) + b[Len(b)]

Zeros(n) == [k \in 1..n |-> 0]

HasOne(b) == \E k \in 1..Len(b) : b[k] = 1

\* b + 1; one bit longer when b is all ones.
Increment(b) ==
    IF \A k \in 1..Len(b) : b[k] = 1 THEN <<1>> \o Zeros(Len(b))
    ELSE LET p == CHOOSE k \in 1..Len(b) : b[k] = 0 /\ \A j \in (k + 1)..Len(b) : b[j] = 1
         IN  [k \in 1..Len(b) |-> IF k < p THEN b[k] ELSE IF k = p THEN 1 ELSE 0]

FloatZero == [bits |-> <<>>, exp |-> 0]

\* The double nearest to bits * 2^exp (+ a nonzero tail below the last bit
\* when sticky), ties to even.
RoundToDouble(bits0, exp, sticky) ==
    LET bits == StripZeros(bits0) IN
    IF bits = <<>> THEN FloatZero
    ELSE IF Len(bits) <= Precision
    THEN [bits |-> bits \o Zeros(Precision - Len(bits)),
          exp  |-> exp - (Precision - Len(bits))]
    ELSE LET head  == SubSeq(bits, 1, Precision)
             guard == bits[Precision + 1]
             rest  == sticky \/ HasOne(SubSeq(bits, Precision + 2, Len(bits)))
             e     == exp + Len(bits) - Precision
             up    == guard = 1 /\ (rest \/ head[Precision] = 1)
             inc   == Increment(head)
         IN  IF ~up THEN [bits |-> head, exp |-> e]
             ELSE IF Len(inc) > Precision
             THEN [bits |-> SubSeq(inc, 1, Precision), exp |-> e + 1]
             ELSE [bits |-> inc, exp |-> e]

\* Long division r/b (r < b), eight quotient bits a step, continuing the
\* quotient bits q after nfrac fraction bits.
RECURSIVE DivBits(_, _, _, _)
DivBits(r, b, q, nfrac) ==
    IF r = 0 \/ Len(StripZeros(q)) >= Precision + 2
    THEN RoundToDouble(q, -nfrac, r # 0)
    ELSE DivBits((r * 256) % b, b, q \o BitsOfWidth((r * 256) \div b, 8), nfrac + 8)

\* a / b on two ints (a >= 0, b > 0): correctly rounded true division.
TrueDiv(a, b) == DivBits(a % b, b, ToBits(a \div b), 0)

\* bits * k + carry as a bit string, eight bits a step from the low end.
RECURSIVE MulBits(_, _, _)
MulBits(b, k, carry) ==
    IF b = <<>> THEN ToBits(carry)
    ELSE LET w == IF Len(b) < 8 THEN Len(b) ELSE 8
             d == FromBits(SubSeq(b, Len(b) - w + 1, Len(b))) * k + carry
         IN  MulBits(SubSeq(b, 1, Len(b) - w), k, d \div 2^w) \o BitsOfWidth(d % 2^w, w)

\* k * x for an int k >= 0 and a float x.
FloatMul(k, x) ==
    IF k = 0 \/ x.bits = <<>> THEN FloatZero
    ELSE RoundToDouble(MulBits(x.bits, k, 0), x.exp, FALSE)

\* The number of bits of x left of the binary point (x.exp <= 0).
IntBits(x) == Len(x.bits) + x.exp

\* int(x): truncation toward zero.
FloatToInt(x) ==
    IF x.bits = <<>> \/ IntBits(x) <= 0 THEN 0
    ELSE FromBits(SubSeq(x.bits, 1, IntBits(x)))

\* k + x for an int k >= 0 and a float x.
FloatAddInt(k, x) ==
    IF x.bits = <<>> THEN RoundToDouble(ToBits(k), 0, FALSE)
    ELSE LET frac == IF IntBits(x) <= 0 THEN Zeros(-IntBits(x)) \o x.bits
                     ELSE SubSeq(x.bits, IntBits(x) + 1, Len(x.bits))
         IN  RoundToDouble(ToBits(k + FloatToInt(x)) \o frac, x.exp, FALSE)

BitsGE(a, b) ==
    \/ a = b
    \/ \E k \in 1..Len(a) : a[k] > b[k] /\ \A j \in 1..(k - 1) : a[j] = b[j]

\* x >= y on floats.
FloatGE(x, y) ==
    IF y.bits = <<>> THEN TRUE
    ELSE IF x.bits = <<>> THEN FALSE
    ELSE x.exp > y.exp \/ (x.exp = y.exp /\ BitsGE(x.bits, y.bits))

(***************************************************************************)
(* pdf_processor.select_sample_pages                                       *)
(***************************************************************************)
\* A plausible slip: fraction = i / (num_samples + 1).
SamplePositionFromZero(usable_start, usable_range, i, num_samples) ==
    FloatToInt(FloatAddInt(usable_start,
                           FloatMul(usable_range, TrueDiv(i, num_samples + 1))))

\* page = int(usable_start + (usable_range * fraction)), fraction = (i+1)/(n+1)
SamplePosition(usable_start, usable_range, i, num_samples) ==
    FloatToInt(FloatAddInt(usable_start,
                           FloatMul(usable_range, TrueDiv(i + 1, num_samples + 1))))

\* A plausible slip: the midpoint rounded up.
ShortDocumentPagesRoundedUp(total_pages) ==
    IF total_pages > 0 THEN <<(total_pages + 1) \div 2>> ELSE <<>>

\* [total_pages // 2] if total_pages > 0 else []
ShortDocumentPages(total_pages) ==
    IF total_pages > 0 THEN <<total_pages \div 2>> ELSE <<>>

\* A plausible slip: range(usable_start, usable_end).
AllUsablePagesExclusive(usable_start, usable_end) ==
    [k \in 1..(usable_end - usable_start) |-> usable_start + k - 1]

\* list(range(usable_start, usable_end + 1))
AllUsablePages(usable_start, usable_end) ==
    [k \in 1..(usable_end + 1 - usable_start) |-> usable_start + k - 1]

select_sample_pages(total_pages, num_samples, skip_first) ==
    IF total_pages <= skip_first
    THEN ShortDocumentPages(total_pages)
    ELSE LET usable_start == skip_first + 1
             usable_end   == total_pages
             usable_range == usable_end - usable_start
         IN  IF usable_range < num_samples
             THEN AllUsablePages(usable_start, usable_end)
             ELSE [k \in 1..num_samples |->
                      SamplePosition(usable_start, usable_range, k - 1, num_samples)]

(***************************************************************************)
(* Optional values: None is the empty tuple, a present value v is <<v>>.   *)
(***************************************************************************)
None == <<>>

Some(v) == <<v>>

(***************************************************************************)
(* offset_calculator                                                       *)
(***************************************************************************)
OffsetSample(pdf_page, detected_label) ==
    [pdf_page       |-> pdf_page,
     detected_label |-> detected_label,
     offset         |-> IF detected_label # None
                        THEN Some(pdf_page - detected_label[1]) ELSE None]

\* [s for s in samples if s.offset is not None]
RECURSIVE ValidSamples(_)
ValidSamples(samples) ==
    IF samples = <<>> THEN <<>>
    ELSE IF Head(samples).offset # None
    THEN <<Head(samples)>> \o ValidSamples(Tail(samples))
    ELSE ValidSamples(Tail(samples))

\* collections.Counter(elems): the counts, keyed in first-occurrence order.
RECURSIVE Counter(_)
Counter(elems) ==
    IF elems = <<>> THEN <<>>
    ELSE LET c == Counter(SubSeq(elems, 1, Len(elems) - 1))
             x == elems[Len(elems)]
         IN  IF \E k \in 1..Len(c) : c[k].key = x
             THEN [k \in 1..Len(c) |->
                      IF c[k].key = x THEN [c[k] EXCEPT !.count = @ + 1] ELSE c[k]]
             ELSE Append(c, [key |-> x, count |-> 1])

\* A plausible slip: the last item of the highest count.
MostCommonLast(c) ==
    c[CHOOSE k \in 1..Len(c) :
         /\ \A j \in 1..Len(c) : c[j].count <= c[k].count
         /\ \A j \in (k + 1)..Len(c) : c[j].count < c[k].count]

\* Counter.most_common(1)[0]: max() over the items in dictionary order
\* keeps the first item of the highest count.
MostCommon(c) ==
    c[CHOOSE k \in 1..Len(c) :
         /\ \A j \in 1..Len(c) : c[j].count <= c[k].count
         /\ \A j \in 1..(k - 1) : c[j].count < c[k].count]

\* A plausible slip: the MEDIUM threshold at 0.67.
ConfidenceAt67(agreement_ratio) ==
    IF agreement_ratio = TrueDiv(1, 1) THEN "HIGH"
    ELSE IF FloatGE(agreement_ratio, TrueDiv(67, 100)) THEN "MEDIUM"
    ELSE "LOW"

\* The confidence tier of agreement_ratio = consensus_count / total_valid.
Confidence(agreement_ratio) ==
    IF agreement_ratio = TrueDiv(1, 1) THEN "HIGH"
    ELSE IF FloatGE(agreement_ratio, TrueDiv(66, 100)) THEN "MEDIUM"
    ELSE "LOW"

\* A plausible slip: the evidence built from the valid samples.
NoValidResultFromValid(samples) ==
    [offset            |-> None,
     confidence        |-> "NONE",
     samples_processed |-> Len(samples),
     samples_agreed    |-> 0,
     all_offsets       |-> <<>>,
     evidence          |-> <<>>,
     message           |-> <<"No labeled page numbers detected">>]

\* The result when no sample has an offset, out of its evidence: the part
\* of it that does not depend on the samples' detail.
\* A plausible slip: the offset defaulted to 0.
NoValidFieldsZeroOffset(samples) ==
    [offset            |-> Some(0),
     confidence        |-> "NONE",
     samples_processed |-> Len(samples),
     samples_agreed    |-> 0,
     all_offsets       |-> <<>>,
     message           |-> <<"No labeled page numbers detected">>]

NoValidFields(samples) ==
    [offset            |-> None,
     confidence        |-> "NONE",
     samples_processed |-> Len(samples),
     samples_agreed    |-> 0,
     all_offsets       |-> <<>>,
     message           |-> <<"No labeled page numbers detected">>]

\* The result when no sample has an offset.
NoValidResult(samples) ==
    NoValidFields(samples) @@
    [evidence |-> [k \in 1..Len(samples) |->
                      [pdf_page       |-> samples[k].pdf_page,
                       detected_label |-> samples[k].detected_label,
                       offset         |-> samples[k].offset]]]

\* A plausible slip: every sample with an offset flagged as agreeing.
ConsensusEvidenceAllValid(samples, consensus_offset) ==
    [k \in 1..Len(samples) |->
        [pdf_page              |-> samples[k].pdf_page,
         detected_label        |-> samples[k].detected_label,
         offset                |-> samples[k].offset,
         agrees_with_consensus |-> samples[k].offset # None]]

\* The evidence entries of a result with a consensus offset.
ConsensusEvidence(samples, consensus_offset) ==
    [k \in 1..Len(samples) |->
        [pdf_page              |-> samples[k].pdf_page,
         detected_label        |-> samples[k].detected_label,
         offset                |-> samples[k].offset,
         agrees_with_consensus |-> samples[k].offset = Some(consensus_offset)]]

\* A plausible slip: samples_processed counts the valid samples.
SamplesProcessedValid(samples, valid_samples) == Len(valid_samples)

\* 'samples_processed': len(samples)
SamplesProcessed(samples, valid_samples) == Len(samples)

\* A plausible slip: the warning attached to LOW results only.
AddWarningsLowOnly(result, consensus_count, total_valid) ==
    IF result.confidence = "LOW"
    THEN result @@ ("warning" :> <<"Low confidence", consensus_count, total_valid>>)
    ELSE result

\* "Add warnings if needed"
AddWarnings(result, consensus_count, total_valid) ==
    IF result.confidence = "LOW"
    THEN result @@ ("warning" :> <<"Low confidence", consensus_count, total_valid>>)
    ELSE IF result.confidence = "MEDIUM"
    THEN result @@ ("warning" :> <<"Medium confidence", consensus_count, total_valid>>)
    ELSE result

calculate_offset_from_samples(samples) ==
    LET valid_samples == ValidSamples(samples) IN
    IF valid_samples = <<>>
    THEN NoValidResult(samples)
    ELSE LET offsets         == [k \in 1..Len(valid_samples) |-> valid_samples[k].offset[1]]
             offset_counts   == Counter(offsets)
             consensus       == MostCommon(offset_counts)
             total_valid     == Len(valid_samples)
             agreement_ratio == TrueDiv(consensus.count, total_valid)
             confidence      == Confidence(agreement_ratio)
             result ==
                [offset              |-> Some(consensus.key),
                 confidence          |-> confidence,
                 samples_processed   |-> SamplesProcessed(samples, valid_samples),
                 samples_agreed      |-> consensus.count,
                 samples_valid       |-> total_valid,
                 agreement_ratio     |-> agreement_ratio,
                 all_offsets         |-> offsets,
                 offset_distribution |-> offset_counts,
                 evidence            |-> ConsensusEvidence(samples, consensus.key)]
         IN  AddWarnings(result, consensus.count, total_valid)

max_offset == 50

Abs(n) == IF n < 0 THEN -n ELSE n

\* A plausible slip: an offset of exactly max_offset rejected.
validate_offset_at_max(offset) ==
    IF offset = None THEN <<FALSE, <<"No offset detected">>>>
    ELSE IF Abs(offset[1]) >= max_offset
    THEN <<FALSE, <<"Offset exceeds maximum", offset[1], max_offset>>>>
    ELSE IF offset[1] < 0 THEN <<TRUE, <<"Negative offset", offset[1]>>>>
    ELSE IF offset[1] = 0 THEN <<TRUE, <<"Zero offset">>>>
    ELSE <<TRUE, <<"Positive offset", offset[1]>>>>

\* (is_valid, message)
validate_offset(offset) ==
    IF offset = None THEN <<FALSE, <<"No offset detected">>>>
    ELSE IF Abs(offset[1]) > max_offset
    THEN <<FALSE, <<"Offset exceeds maximum", offset[1], max_offset>>>>
    ELSE IF offset[1] < 0 THEN <<TRUE, <<"Negative offset", offset[1]>>>>
    ELSE IF offset[1] = 0 THEN <<TRUE, <<"Zero offset">>>>
    ELSE <<TRUE, <<"Positive offset", offset[1]>>>>

\* The optional entries of offset_result that the mapping takes over.
OptionalFields(offset_result) ==
    [f \in {"warning", "message", "offset_distribution"} \cap DOMAIN offset_result |->
        offset_result[f]]

create_offset_mapping(company, document_name, offset_result, evidence_images, method) ==
    LET mapping ==
            [document_name     |-> document_name,
             offset            |-> IF "offset" \in DOMAIN offset_result
                                   THEN offset_result.offset ELSE Some(0),
             confidence        |-> offset_result.confidence,
             samples_processed |-> offset_result.samples_processed,
             samples_agreed    |-> offset_result.samples_agreed,
             method            |-> method,
             evidence          |-> offset_result.evidence,
             evidence_images   |-> evidence_images]
            @@ OptionalFields(offset_result)
    IN  IF offset_result.offset # None
        THEN mapping @@ ("validation" :>
                [is_valid |-> validate_offset(offset_result.offset)[1],
                 message  |-> validate_offset(offset_result.offset)[2]])
        ELSE mapping

(***************************************************************************)
(* pdf_processor.save_evidence_image: the path names the company, the      *)
(* sample number, the page and the label; the empty string on failure.     *)
(***************************************************************************)
save_evidence_image(saved, output_path, company, sample_num, pdf_page, detected_label) ==
    IF saved
    THEN [dir            |-> output_path,
          company        |-> company,
          sample_num     |-> sample_num,
          pdf_page       |-> pdf_page,
          detected_label |-> detected_label]
    ELSE <<>>

(***************************************************************************)
(* detect_offsets.process_single_pdf as a whole, for the batch: the        *)
(* document has total_pages pages and the recognizer reads, off the k-th   *)
(* sample page, the label page - labels[k][1]; labels[k] = None is a page  *)
(* that cannot be rendered.  Every rendered page gets its evidence image.  *)
(***************************************************************************)
\* The defaults of the sampler and of the batch, and the range of a label.
DefaultSkipFirst == 5
DefaultNumSamples == 3
MinLabel == 1
MaxLabelValue == 9999

YEAR == "2024"

SamplesOf(sample_pages, labels) ==
    [k \in 1..Len(sample_pages) |->
        OffsetSample(sample_pages[k],
                     IF labels[k] = None THEN None
                     ELSE Some(sample_pages[k] - labels[k][1]))]

RECURSIVE EvidenceImagesOf(_, _, _, _)
EvidenceImagesOf(company, sample_pages, labels, i) ==
    IF i > Len(sample_pages) THEN <<>>
    ELSE (IF labels[i] = None THEN <<>>
          ELSE <<save_evidence_image(TRUE, "evidence_images", company, i,
                     sample_pages[i], Some(sample_pages[i] - labels[i][1]))>>)
         \o EvidenceImagesOf(company, sample_pages, labels, i + 1)

\* None: no mapping is returned.
process_single_pdf(pdf_path, company, num_samples, total_pages, labels) ==
    IF total_pages = 0 THEN None
    ELSE LET sample_pages == select_sample_pages(total_pages, num_samples, DefaultSkipFirst) IN
         IF sample_pages = <<>> THEN None
         ELSE Some(create_offset_mapping(company, pdf_path.name,
                       calculate_offset_from_samples(SamplesOf(sample_pages, labels)),
                       EvidenceImagesOf(company, sample_pages, labels, 1), "ocr_auto")
                   @@ [company_key |-> <<company, YEAR>>, pdf_path |-> pdf_path])

(***************************************************************************)
(* detect_offsets.process_all_companies: what the loop body does with the  *)
(* mapping of one document.                                                *)
(***************************************************************************)
\* A plausible slip: the first mapping under a key kept.
AccumulateFirst(all_mappings, mapping) ==
    IF mapping[1].company_key \in DOMAIN all_mappings
    THEN all_mappings
    ELSE (mapping[1].company_key :> mapping[1]) @@ all_mappings

\* all_mappings[company_key] = mapping
Accumulate(all_mappings, mapping) ==
    (mapping[1].company_key :> mapping[1]) @@ all_mappings

\* offset_calculator.merge_offset_mappings: merged[company_key] = mapping for
\* the mappings of the list in turn (every mapping here has a company key).
RECURSIVE merge_offset_mappings(_)
merge_offset_mappings(mappings) ==
    IF mappings = <<>> THEN <<>>
    ELSE LET last == mappings[Len(mappings)]
         IN  (last.company_key :> last)
                @@ merge_offset_mappings(SubSeq(mappings, 1, Len(mappings) - 1))

\* A plausible slip: MEDIUM left out of the confidences to flag.
ShouldFlagLowOrNone(mapping) == mapping[1].confidence \in {"LOW", "NONE"}

\* "Flag if low confidence"
ShouldFlag(mapping) == mapping[1].confidence \in {"LOW", "NONE", "MEDIUM"}

\* mapping.get('warning') or mapping.get('message', 'Unknown')
FlagReason(mapping) ==
    IF "warning" \in DOMAIN mapping[1] THEN mapping[1].warning
    ELSE IF "message" \in DOMAIN mapping[1] THEN mapping[1].message
    ELSE <<"Unknown">>

FlaggedItem(company, mapping) ==
    [company    |-> company,
     document   |-> mapping[1].document_name,
     confidence |-> mapping[1].confidence,
     reason     |-> FlagReason(mapping)]

\* A plausible slip: the mappings so far lost with the failing document.
OnExceptionReset(all_mappings) == <<>>

\* "except Exception": the error is printed, the mappings so far are kept.
OnException(all_mappings) == all_mappings

(***************************************************************************)
(* ocr_detector.detect_labeled_page_number.  The recognition engine is     *)
(* external: it gives the words of the page (each one blank, a digit       *)
(* string with its value, or other text, with its top coordinate and its   *)
(* confidence) and, for the page's text, the numbers the PAGE_PATTERNS     *)
(* capture, in the order of the patterns and of their matches.             *)
(***************************************************************************)
\* The height of the page image.
ImageHeight == 2200

\* An int >= 0 as a float.
IntToFloat(n) == RoundToDouble(ToBits(n), 0, FALSE)

header_threshold == FloatMul(ImageHeight, TrueDiv(10, 100))

footer_threshold == FloatMul(ImageHeight, TrueDiv(90, 100))

RECURSIVE find_page_number_patterns(_)
find_page_number_patterns(captured) ==
    IF captured = <<>> THEN <<>>
    ELSE (IF MinLabel <= Head(captured) /\ Head(captured) <= MaxLabelValue
          THEN <<Head(captured)>> ELSE <<>>)
         \o find_page_number_patterns(Tail(captured))

RECURSIVE find_positional_page_numbers(_)
find_positional_page_numbers(words) ==
    IF words = <<>> THEN <<>>
    ELSE LET word      == Head(words)
             in_footer == FloatGE(IntToFloat(word.top), footer_threshold)
             in_header == FloatGE(header_threshold, IntToFloat(word.top))
         IN  (IF /\ word.kind = "digits"
                 /\ in_footer \/ in_header
                 /\ MinLabel <= word.value /\ word.value <= MaxLabelValue
                 /\ word.conf > 50
              THEN <<word.value>> ELSE <<>>)
             \o find_positional_page_numbers(Tail(words))

\* A plausible slip: the pattern matches put first.
AllCandidatesPatternFirst(positional_matches, pattern_matches) ==
    pattern_matches \o positional_matches

\* all_candidates = positional_matches + pattern_matches
AllCandidates(positional_matches, pattern_matches) ==
    positional_matches \o pattern_matches

detect_labeled_page_number(image) ==
    IF image.raises THEN None
    ELSE LET pattern_matches    == find_page_number_patterns(image.captured)
             positional_matches == find_positional_page_numbers(image.words)
             all_candidates     == AllCandidates(positional_matches, pattern_matches)
         IN  IF all_candidates = <<>> THEN None ELSE Some(all_candidates[1])

(***************************************************************************)
(* offset_calculator.generate_summary_statistics on the mappings in the    *)
(* order of the dict (values: the sequence of all_mappings.values()).      *)
(***************************************************************************)
RECURSIVE Sum(_)
Sum(s) == IF s = <<>> THEN 0 ELSE Head(s) + Sum(Tail(s))

\* sorted(s) for a sequence of ints.
RECURSIVE Sorted(_)
Sorted(s) ==
    IF s = <<>> THEN <<>>
    ELSE LET k == CHOOSE j \in 1..Len(s) : \A i \in 1..Len(s) : s[j] <= s[i]
         IN  <<s[k]>> \o Sorted(SubSeq(s, 1, k - 1) \o SubSeq(s, k + 1, Len(s)))

\* statistics.mean on ints (sum >= 0): an int when exact, else a float.
Mean(s) == IF Sum(s) % Len(s) = 0 THEN Sum(s) \div Len(s) ELSE TrueDiv(Sum(s), Len(s))

\* statistics.median on ints (>= 0): the middle element, or the float
\* (a + b) / 2 of the two middle ones.
Median(s) ==
    LET n == Len(s) IN
    IF n % 2 = 1 THEN Sorted(s)[n \div 2 + 1]
    ELSE TrueDiv(Sorted(s)[n \div 2] + Sorted(s)[n \div 2 + 1], 2)

\* m.get('offset') == 0 or m.get('offset') is None
NoOffset(m) == m.offset = Some(0) \/ m.offset = None

generate_summary_statistics(values) ==
    LET total       == Len(values)
        high_conf   == Len(SelectSeq(values, LAMBDA m : m.confidence = "HIGH"))
        medium_conf == Len(SelectSeq(values, LAMBDA m : m.confidence = "MEDIUM"))
        low_conf    == Len(SelectSeq(values, LAMBDA m : m.confidence = "LOW"))
        no_offset   == Len(SelectSeq(values, NoOffset))
        offsets     == LET with == SelectSeq(values, LAMBDA m : m.offset # None)
                       IN  [k \in 1..Len(with) |-> with[k].offset[1]]
        result ==
            [total_documents         |-> total,
             confidence_distribution |->
                 <<[conf |-> "HIGH",   count |-> high_conf],
                   [conf |-> "MEDIUM", count |-> medium_conf],
                   [conf |-> "LOW",    count |-> low_conf],
                   [conf |-> "NONE",   count |-> total - high_conf - medium_conf - low_conf]>>,
             documents_with_offset   |-> total - no_offset,
             documents_no_offset     |-> no_offset]
    IN  IF offsets # <<>>
        THEN result @@ [offset_statistics |->
                           [min    |-> Sorted(offsets)[1],
                            max    |-> Sorted(offsets)[Len(offsets)],
                            mean   |-> Mean(offsets),
                            median |-> Median(offsets),
                            mode   |-> MostCommon(Counter(offsets)).key]]
        ELSE result

(***************************************************************************)
(* json.dump and json.load on a mapping.  An int is written as its decimal *)
(* numeral and read back from it, None is written as null, and the keys of *)
(* a dict are written as strings: an int key as the string of its numeral. *)
(* Strings, booleans and lists of them are kept as they are.  A key read   *)
(* back is PyStr(numeral); the int key k of a dict in memory is PyInt(k).  *)
(***************************************************************************)
Digits == <<"0", "1", "2", "3", "4", "5", "6", "7", "8", "9">>

RECURSIVE NatToStr(_)
NatToStr(n) ==
    IF n < 10 THEN <<Digits[n + 1]>>
    ELSE NatToStr(n \div 10) \o <<Digits[(n % 10) + 1]>>

\* str(n)
IntToStr(n) == IF n < 0 THEN <<"-">> \o NatToStr(-n) ELSE NatToStr(n)

RECURSIVE StrToNat(_)
StrToNat(t) ==
    IF t = <<>> THEN 0
    ELSE 10 * StrToNat(SubSeq(t, 1, Len(t) - 1))
         + ((CHOOSE d \in 1..10 : Digits[d] = t[Len(t)]) - 1)

\* int(t)
StrToInt(t) == IF t[1] = "-" THEN -StrToNat(Tail(t)) ELSE StrToNat(t)

PyInt(k) == [int |-> k]

PyStr(t) == [str |-> t]

JsonNumber(n) == [number |-> IntToStr(n)]

JsonNull == [null |-> TRUE]

JsonOptional(v) == IF v = None THEN JsonNull ELSE JsonNumber(v[1])

DumpEvidence(e) ==
    [f \in DOMAIN e |->
        IF f = "pdf_page" THEN JsonNumber(e[f])
        ELSE IF f \in {"detected_label", "offset"} THEN JsonOptional(e[f])
        ELSE e[f]]

DumpMapping(m) ==
    [f \in DOMAIN m |->
        IF f \in {"samples_processed", "samples_agreed"} THEN JsonNumber(m[f])
        ELSE IF f = "offset" THEN JsonOptional(m[f])
        ELSE IF f = "evidence" THEN [k \in 1..Len(m[f]) |-> DumpEvidence(m[f][k])]
        ELSE IF f = "offset_distribution"
        THEN [k \in 1..Len(m[f]) |-> [key   |-> IntToStr(m[f][k].key),
                                      value |-> JsonNumber(m[f][k].count)]]
        ELSE m[f]]

json_dump(all_mappings) == [key \in DOMAIN all_mappings |-> DumpMapping(all_mappings[key])]

LoadNumber(j) == StrToInt(j.number)

LoadOptional(j) == IF j = JsonNull THEN None ELSE Some(LoadNumber(j))

LoadEvidence(j) ==
    [f \in DOMAIN j |->
        IF f = "pdf_page" THEN LoadNumber(j[f])
        ELSE IF f \in {"detected_label", "offset"} THEN LoadOptional(j[f])
        ELSE j[f]]

LoadMapping(j) ==
    [f \in DOMAIN j |->
        IF f \in {"samples_processed", "samples_agreed"} THEN LoadNumber(j[f])
        ELSE IF f = "offset" THEN LoadOptional(j[f])
        ELSE IF f = "evidence" THEN [k \in 1..Len(j[f]) |-> LoadEvidence(j[f][k])]
        ELSE IF f = "offset_distribution"
        THEN [k \in 1..Len(j[f]) |-> [key   |-> PyStr(j[f][k].key),
                                      count |-> LoadNumber(j[f][k].value)]]
        ELSE j[f]]

json_load(file) == [key \in DOMAIN file |-> LoadMapping(file[key])]

(***************************************************************************)
(* Cross-question review (review_duplicates.py, apply_review.py).          *)
(* A text is a sequence of characters; a confidence and the confidence     *)
(* threshold are counted in tenths (0.5 is 5), which keeps their order.    *)
(***************************************************************************)
Whitespace == {" ", "\t", "\n"}

UpperCase == <<"A", "B", "C", "D", "E", "F", "G", "H", "I", "J", "K", "L", "M",
               "N", "O", "P", "Q", "R", "S", "T", "U", "V", "W", "X", "Y", "Z">>

LowerCase == <<"a", "b", "c", "d", "e", "f", "g", "h", "i", "j", "k", "l", "m",
               "n", "o", "p", "q", "r", "s", "t", "u", "v", "w", "x", "y", "z">>

\* str.strip()
RECURSIVE lstrip(_)
lstrip(text) ==
    IF text # <<>> /\ text[1] \in Whitespace THEN lstrip(Tail(text)) ELSE text

RECURSIVE rstrip(_)
rstrip(text) ==
    IF text # <<>> /\ text[Len(text)] \in Whitespace
    THEN rstrip(SubSeq(text, 1, Len(text) - 1))
    ELSE text

strip(text) == rstrip(lstrip(text))

\* str.split(): the words between runs of whitespace
RECURSIVE split(_)
split(text) ==
    LET rest == lstrip(text)
        stop == IF \E k \in 1..Len(rest) : rest[k] \in Whitespace
                THEN CHOOSE k \in 1..Len(rest) :
                        /\ rest[k] \in Whitespace
                        /\ \A j \in 1..(k - 1) : rest[j] \notin Whitespace
                ELSE Len(rest) + 1
    IN  IF rest = <<>> THEN <<>>
        ELSE <<SubSeq(rest, 1, stop - 1)>> \o split(SubSeq(rest, stop, Len(rest)))

\* sep.join(words)
RECURSIVE join(_, _)
join(sep, words) ==
    IF words = <<>> THEN <<>>
    ELSE IF Len(words) = 1 THEN words[1]
    ELSE words[1] \o sep \o join(sep, Tail(words))

\* str.lower()
lower(text) ==
    [k \in 1..Len(text) |->
        IF \E u \in 1..Len(UpperCase) : UpperCase[u] = text[k]
        THEN LowerCase[CHOOSE u \in 1..Len(UpperCase) : UpperCase[u] = text[k]]
        ELSE text[k]]

normalize_text(text) == lower(join(<<" ">>, split(text)))

\* text.lower().startswith("no disclosure found")
Placeholder == <<"n", "o", " ", "d", "i", "s", "c", "l", "o", "s", "u", "r", "e",
                 " ", "f", "o", "u", "n", "d">>

startswith(text, prefix) ==
    Len(text) >= Len(prefix) /\ SubSeq(text, 1, Len(prefix)) = prefix

\* question.get("question_id") or question.get("question_number")
QidOf(question) ==
    IF question.question_id # None THEN question.question_id
    ELSE question.question_number

\* str(qid)
Str(v) == IF "int" \in DOMAIN v THEN PyStr(IntToStr(v.int)) ELSE v

\* (snip.get("text") or snip.get("quote") or "").strip()
SnippetText(snip) == strip(snip.text)

\* The (question, snippet) pairs iter_duplicate_groups looks at, in file order.
RECURSIVE Occurrences(_)
Occurrences(analysis_results) ==
    IF analysis_results = <<>> THEN <<>>
    ELSE LET question == analysis_results[1]
             qid == QidOf(question)
             kept == SelectSeq(question.disclosures,
                        LAMBDA snip :
                            /\ SnippetText(snip) # <<>>
                            /\ ~startswith(lower(SnippetText(snip)), Placeholder))
         IN  (IF qid = None THEN <<>>
              ELSE [k \in 1..Len(kept) |-> [qid |-> qid[1], snip |-> kept[k]]])
             \o Occurrences(Tail(analysis_results))

\* snippet_map.setdefault(key, ...) and snippet_map[key]["entries"].append(...)
RECURSIVE SnippetMap(_, _, _)
SnippetMap(snippet_map, occurrences, file_path) ==
    IF occurrences = <<>> THEN snippet_map
    ELSE LET text == SnippetText(occurrences[1].snip)
             key == normalize_text(text)
             entry == [question_id |-> Str(occurrences[1].qid),
                       snippet_id  |-> occurrences[1].snip.snippet_id]
             known == \E g \in 1..Len(snippet_map) : snippet_map[g].key = key
             next == IF known
                     THEN [g \in 1..Len(snippet_map) |->
                             IF snippet_map[g].key = key
                             THEN [snippet_map[g] EXCEPT !.entries = Append(@, entry)]
                             ELSE snippet_map[g]]
                     ELSE Append(snippet_map,
                                 [key |-> key, text |-> text, file |-> file_path,
                                  entries |-> <<entry>>])
         IN  SnippetMap(next, Tail(occurrences), file_path)

\* The groups of one file whose entries name more than one question.
iter_duplicate_groups(file) ==
    SelectSeq(SnippetMap(<<>>, Occurrences(file.analysis_results), file.path),
              LAMBDA group :
                  Cardinality({group.entries[k].question_id :
                                   k \in 1..Len(group.entries)}) > 1)

\* The question ids of the entries, each once, in order of first appearance.
RECURSIVE DistinctQuestions(_)
DistinctQuestions(entries) ==
    IF entries = <<>> THEN <<>>
    ELSE LET before == DistinctQuestions(SubSeq(entries, 1, Len(entries) - 1))
             qid == entries[Len(entries)].question_id
         IN  IF \E k \in 1..Len(before) : before[k] = qid THEN before
             ELSE Append(before, qid)

\* What the model may answer for one question: belongs, and a confidence
\* (absent, 0.3 or 0.5).
LlmAnswers == BOOLEAN \X {None, Some(3), Some(5)}

\* review_group: the answers of the model are an input, one decision for each
\* question the prompt lists.
review_group(snippet_text, entries) ==
    LET questions == DistinctQuestions(entries) IN
    {[snippet    |-> snippet_text,
      questions  |-> entries,
      llm_output |-> [decisions |->
                        [k \in 1..Len(questions) |->
                            [question_id |-> questions[k],
                             belongs     |-> answers[k][1],
                             confidence  |-> answers[k][2],
                             rationale   |-> "rationale"]]]] :
        answers \in [1..Len(questions) -> LlmAnswers]}

\* main of review_duplicates: one JSON line for each group.
RECURSIVE ReviewRecords(_)
ReviewRecords(groups) ==
    IF groups = <<>> THEN {<<>>}
    ELSE {<<[source_file |-> groups[1].file] @@ review>> \o rest :
             review \in review_group(groups[1].text, groups[1].entries),
             rest \in ReviewRecords(Tail(groups))}

\* mapping[qid].setdefault(snippet_text, decision), then source_file is set
SetDefault(mapping, qid, snippet_text, decision, source_file) ==
    LET known == IF qid \in DOMAIN mapping THEN mapping[qid] ELSE <<>>
        entry == IF snippet_text \in DOMAIN known THEN known[snippet_text]
                 ELSE decision
        with  == [source_file |-> source_file] @@ entry
    IN  [q \in DOMAIN mapping \cup {qid} |->
            IF q = qid
            THEN [t \in DOMAIN known \cup {snippet_text} |->
                     IF t = snippet_text THEN with ELSE known[t]]
            ELSE mapping[q]]

RECURSIVE LoadDecisions(_, _, _)
LoadDecisions(mapping, record, decisions) ==
    IF decisions = <<>> THEN mapping
    ELSE LoadDecisions(SetDefault(mapping, decisions[1].question_id, record.snippet,
                                  decisions[1], record.source_file),
                       record, Tail(decisions))

RECURSIVE LoadRecords(_, _)
LoadRecords(mapping, records) ==
    IF records = <<>> THEN mapping
    ELSE LoadRecords(LoadDecisions(mapping, records[1],
                                   records[1].llm_output.decisions),
                     Tail(records))

load_review_file(records) == LoadRecords(<<>>, records)

\* f"{len(removed)} snippet(s) removed after cross-question review."
RemovedSummary(n) == <<IntToStr(n), " snippet(s) removed after cross-question review.">>

summarize_decisions(decisions) ==
    IF decisions = <<>>
    THEN [status    |-> "clean",
          summary   |-> <<"All snippets retained; no cross-question conflicts detected.">>,
          decisions |-> <<>>]
    ELSE LET removed == SelectSeq(decisions, LAMBDA d : ~d.belongs) IN
         IF removed # <<>>
         THEN [status    |-> "needs_attention",
               summary   |-> RemovedSummary(Len(removed)),
               decisions |-> decisions]
         ELSE [status    |-> "clean",
               summary   |-> <<"All reviewed snippets retained.">>,
               decisions |-> decisions]

\* review_map[qid].get(text)
Decision(mapping, qid, text) ==
    IF text \in DOMAIN mapping[qid] THEN Some(mapping[qid][text]) ELSE None

DecisionEntry(snippet, decision) ==
    [snippet_id |-> snippet.snippet_id,
     belongs    |-> decision.belongs,
     confidence |-> decision.confidence,
     rationale  |-> decision.rationale]

\* The snippet stays when it belongs or the decision's confidence is below the
\* threshold.
Keeps(decision_entry, threshold) ==
    \/ decision_entry.belongs
    \/ (decision_entry.confidence # None /\ decision_entry.confidence[1] < threshold)

\* The loop over the disclosures of one reviewed question.
RECURSIVE ProcessDisclosures(_, _, _, _)
ProcessDisclosures(disclosures, mapping, qid, threshold) ==
    IF disclosures = <<>>
    THEN [filtered_disclosures |-> <<>>, question_decisions |-> <<>>, removed |-> 0]
    ELSE LET before == ProcessDisclosures(SubSeq(disclosures, 1, Len(disclosures) - 1),
                                          mapping, qid, threshold)
             snippet == disclosures[Len(disclosures)]
             decision == Decision(mapping, qid, SnippetText(snippet))
         IN  IF decision = None
             THEN [before EXCEPT !.filtered_disclosures = Append(@, snippet)]
             ELSE LET decision_entry == DecisionEntry(snippet, decision[1]) IN
                  IF Keeps(decision_entry, threshold)
                  THEN [before EXCEPT
                           !.filtered_disclosures = Append(@, snippet),
                           !.question_decisions = Append(@, decision_entry)]
                  ELSE [before EXCEPT
                           !.question_decisions = Append(@, decision_entry),
                           !.removed = @ + 1]

\* One question of analysis_results as process_file leaves it.
ProcessQuestion(question, mapping, threshold) ==
    LET qid == QidOf(question) IN
    IF qid = None \/ qid[1] \notin DOMAIN mapping
    THEN [question |-> question, modified |-> 0, removed |-> 0]
    ELSE LET done == ProcessDisclosures(question.disclosures, mapping, qid[1], threshold) IN
         IF done.question_decisions = <<>>
         THEN [question |-> question, modified |-> 0, removed |-> done.removed]
         ELSE [question |->
                  [cross_question_review |-> summarize_decisions(done.question_decisions)]
                  @@ [question EXCEPT !.disclosures = done.filtered_disclosures],
               modified |-> 1,
               removed  |-> done.removed]

process_file(file, mapping, threshold) ==
    LET done == [k \in 1..Len(file.analysis_results) |->
                    ProcessQuestion(file.analysis_results[k], mapping, threshold)]
    IN  [data   |-> [file EXCEPT !.analysis_results =
                        [k \in 1..Len(done) |-> done[k].question]],
         counts |-> [questions_modified |-> Sum([k \in 1..Len(done) |-> done[k].modified]),
                     snippets_removed   |-> Sum([k \in 1..Len(done) |-> done[k].removed])]]

(***************************************************************************)
(* State                                                                   *)
(***************************************************************************)
VARIABLES
    pc,               \* the position in the operation under way
    total_pages,      \* the page count of the document (0: unreadable or empty)
    num_samples,      \* the requested number of samples
    skip_first,       \* the number of front pages the sampler skips
    sample_pages,     \* the sampler's result
    samples,          \* the OffsetSample list built so far
    evidence_images,  \* the relative paths of the evidence images saved so far
    offset_result,    \* the result of calculate_offset_from_samples
    mapping,          \* the mapping returned (None: no mapping)
    rendered,         \* per loop iteration so far: whether the page was rendered
    pdfs,             \* the (company, document) pairs the batch has yet to process
    all_mappings,     \* the batch's mappings by company key
    flagged_items,    \* the batch's entries flagged for review
    outcomes,         \* per document processed so far: what became of it
    ocr,              \* what the recognition engine gives for the image at hand
    detected,         \* the result of detect_labeled_page_number
    mappings_file,    \* page_offset_mappings.json (None: not written)
    stats,            \* the result of generate_summary_statistics
    report_file,      \* detection_report.txt (None: not written)
    flagged_file,     \* flagged_for_review.txt (None: not written)
    loaded,           \* page_offset_mappings.json parsed back
    data,             \* the *_deduped.json file: its questions with their snippets
    confidence_threshold,  \* --confidence-threshold, in tenths
    review_file,      \* the review records written by review_duplicates
    review_map,       \* the result of load_review_file
    output_data,      \* the *_deduped_and_reviewed.json file
    counts            \* the counts process_file returns

batch_vars == <<pdfs, all_mappings, flagged_items, outcomes>>

ocr_vars == <<ocr, detected>>

save_vars == <<mappings_file, stats, report_file, flagged_file, loaded>>

review_vars == <<data, confidence_threshold, review_file, review_map, output_data, counts>>

aux_vars == <<ocr_vars, save_vars, review_vars>>

vars == <<pc, total_pages, num_samples, skip_first, sample_pages, samples,
          evidence_images, offset_result, mapping, rendered, batch_vars, aux_vars>>

\* No recognition under way.
NoOcr == ocr = <<>> /\ detected = <<>>

\* Nothing saved.
NoSave ==
    /\ mappings_file = <<>>
    /\ stats = <<>>
    /\ report_file = <<>>
    /\ flagged_file = <<>>
    /\ loaded = <<>>

\* No review under way.
NoReview ==
    /\ data = <<>>
    /\ confidence_threshold = 0
    /\ review_file = <<>>
    /\ review_map = <<>>
    /\ output_data = <<>>
    /\ counts = <<>>

\* No batch under way.
NoBatch ==
    /\ pdfs = <<>>
    /\ all_mappings = <<>>
    /\ flagged_items = <<>>
    /\ outcomes = <<>>

\* Bounds of the sampler's inputs.
MaxTotalPages == 100
MaxNumSamples == 9
MaxSkipFirst == 5

\* Bounds of the consensus engine's inputs.
MaxSamples == 3
MaxPdfPage == 2
MaxLabel == 2

\* The largest number of valid samples the confidence tiers are tabulated for.
MaxTierSamples == 50

\* Bounds of the documents the pipeline reads.
MaxDocPages == 12
MaxDocSamples == 3
MaxLabelDelta == 1

\* SpecValidate: one sample, with a label up to MaxWideLabel on page 1 or
\* with label 1 on a page up to MaxWidePage (offsets -51..75).
MaxWideLabel == 52
MaxWidePage == 76

\* SpecRecognizer: at most MaxWords words on the page and at most
\* MaxCaptured numbers captured by the patterns.
MaxWords == 2
MaxCaptured == 2

\* process_all_companies: at most MaxPdfs documents in the company folders,
\* each unreadable (0 pages) or of MaxBatchPages pages.
MaxPdfs == 3
MaxBatchPages == 8

(***************************************************************************)
(* SpecSampler: select_sample_pages on every input within the bounds.      *)
(***************************************************************************)
InitSampler ==
    /\ pc = "sampler"
    /\ total_pages \in 0..MaxTotalPages
    /\ num_samples \in 1..MaxNumSamples
    /\ skip_first \in 0..MaxSkipFirst
    /\ sample_pages = <<>>
    /\ samples = <<>>
    /\ evidence_images = <<>>
    /\ offset_result = None
    /\ mapping = None
    /\ rendered = <<>>
    /\ NoBatch
    /\ NoOcr /\ NoSave /\ NoReview

SelectSamplePages ==
    /\ pc = "sampler"
    /\ sample_pages' = select_sample_pages(total_pages, num_samples, skip_first)
    /\ pc' = "sampled"
    /\ UNCHANGED <<total_pages, num_samples, skip_first, samples, evidence_images,
                   offset_result, mapping, rendered, batch_vars, aux_vars>>

NextSampler == SelectSamplePages

SpecSampler == InitSampler /\ [][NextSampler]_vars

(***************************************************************************)
(* SpecManySamples: select_sample_pages asked for twenty or more samples   *)
(* of a document that has only a few pages more than that, the range in    *)
(* which step is close to 1.                                               *)
(***************************************************************************)
MinManySamples == 20
MaxManySamples == 22
MaxManyPages == 26

InitManySamples ==
    /\ pc = "sampler"
    /\ total_pages \in 0..MaxManyPages
    /\ num_samples \in MinManySamples..MaxManySamples
    /\ skip_first \in 0..MaxSkipFirst
    /\ sample_pages = <<>>
    /\ samples = <<>>
    /\ evidence_images = <<>>
    /\ offset_result = None
    /\ mapping = None
    /\ rendered = <<>>
    /\ NoBatch
    /\ NoOcr /\ NoSave /\ NoReview

SpecManySamples == InitManySamples /\ [][NextSampler]_vars

(***************************************************************************)
(* SpecConsensus: calculate_offset_from_samples, then                      *)
(* create_offset_mapping, on every sample sequence within the bounds.      *)
(***************************************************************************)
SampleSet ==
    {OffsetSample(p, l) : p \in 1..MaxPdfPage,
                          l \in {None} \cup {Some(x) : x \in 1..MaxLabel}}

\* The sample data of test_offset_calculator (offsets 4, 4, 4) and a sequence
\* with one dissenting sample (offsets 2, 3, 3).
ExampleSamples ==
    {<<OffsetSample(25, Some(21)), OffsetSample(50, Some(46)), OffsetSample(75, Some(71))>>,
     <<OffsetSample(10, Some(8)), OffsetSample(20, Some(17)), OffsetSample(30, Some(27))>>}

InitConsensus ==
    /\ pc = "samples"
    /\ samples \in UNION {[1..n -> SampleSet] : n \in 0..MaxSamples} \cup ExampleSamples
    /\ total_pages = 0
    /\ num_samples = Len(samples)
    /\ skip_first = DefaultSkipFirst
    /\ sample_pages = <<>>
    /\ evidence_images = <<>>
    /\ offset_result = None
    /\ mapping = None
    /\ rendered = <<>>
    /\ NoBatch
    /\ NoOcr /\ NoSave /\ NoReview

CalculateOffset ==
    /\ pc = "samples"
    /\ offset_result' = calculate_offset_from_samples(samples)
    /\ pc' = "calculated"
    /\ UNCHANGED <<total_pages, num_samples, skip_first, sample_pages, samples,
                   evidence_images, mapping, rendered, batch_vars, aux_vars>>

CreateMapping ==
    /\ pc = "calculated"
    /\ mapping' = create_offset_mapping("ADAMA", "report.pdf", offset_result,
                                        evidence_images, "ocr_auto")
    /\ pc' = "mapped"
    /\ UNCHANGED <<total_pages, num_samples, skip_first, sample_pages, samples,
                   evidence_images, offset_result, rendered, batch_vars, aux_vars>>

NextConsensus == CalculateOffset \/ CreateMapping

SpecConsensus == InitConsensus /\ [][NextConsensus]_vars

(***************************************************************************)
(* SpecValidate: the same two steps on a single sample whose offset ranges *)
(* over both signs and beyond max_offset on either side.                   *)
(***************************************************************************)
WideSamples ==
    {<<OffsetSample(1, Some(l))>> : l \in MinLabel..MaxWideLabel}
        \cup {<<OffsetSample(p, Some(MinLabel))>> : p \in 1..MaxWidePage}

InitValidate ==
    /\ pc = "samples"
    /\ samples \in WideSamples
    /\ total_pages = 0
    /\ num_samples = Len(samples)
    /\ skip_first = DefaultSkipFirst
    /\ sample_pages = <<>>
    /\ evidence_images = <<>>
    /\ offset_result = None
    /\ mapping = None
    /\ rendered = <<>>
    /\ NoBatch
    /\ NoOcr /\ NoSave /\ NoReview

SpecValidate == InitValidate /\ [][NextConsensus]_vars

(***************************************************************************)
(* Spec: detect_offsets.process_single_pdf on one document, one loop       *)
(* iteration a step.  The renderer, the recognizer and the image store are *)
(* external: each of their outcomes is possible at every sample.           *)
(***************************************************************************)
Init ==
    /\ pc = "start"
    /\ total_pages \in 0..MaxDocPages
    /\ num_samples \in 1..MaxDocSamples
    /\ skip_first = DefaultSkipFirst
    /\ sample_pages = <<>>
    /\ samples = <<>>
    /\ evidence_images = <<>>
    /\ offset_result = None
    /\ mapping = None
    /\ rendered = <<>>
    /\ NoBatch
    /\ NoOcr /\ NoSave /\ NoReview

\* get_pdf_page_count and select_sample_pages: no mapping for a document
\* without pages or without sample pages.
SelectPages ==
    /\ pc = "start"
    /\ IF total_pages = 0
       THEN /\ pc' = "done"
            /\ UNCHANGED sample_pages
       ELSE /\ sample_pages' = select_sample_pages(total_pages, num_samples, skip_first)
            /\ pc' = IF sample_pages' = <<>> THEN "done" ELSE "loop"
    /\ UNCHANGED <<total_pages, num_samples, skip_first, samples, evidence_images,
                   offset_result, mapping, rendered, batch_vars, aux_vars>>

\* The labels detect_labeled_page_number can read off pdf_page here.
DetectableLabels(pdf_page) ==
    {Some(l) : l \in {x \in (pdf_page - MaxLabelDelta)..pdf_page :
                         MinLabel <= x /\ x <= MaxLabelValue}}

\* A plausible slip: the page that cannot be rendered left out of the samples.
SkipFailedRender(sofar, pdf_page) == sofar

\* "if image is None": the sample recorded for a page that cannot be rendered.
RecordFailedRender(sofar, pdf_page) == Append(sofar, OffsetSample(pdf_page, None))

\* One iteration of the loop over sample_pages.
ProcessSample ==
    /\ pc = "loop"
    /\ Len(rendered) < Len(sample_pages)
    /\ LET i        == Len(rendered) + 1
           pdf_page == sample_pages[i]
       IN  \/ \* convert_pdf_page_to_image returns None
              /\ rendered' = Append(rendered, FALSE)
              /\ samples' = RecordFailedRender(samples, pdf_page)
              /\ UNCHANGED evidence_images
           \/ \E detected_label \in {None} \cup DetectableLabels(pdf_page),
                 saved \in BOOLEAN :
                 LET evidence_path == save_evidence_image(saved, "evidence_images",
                                          "ADAMA", i, pdf_page, detected_label)
                 IN  /\ evidence_images' = IF evidence_path # <<>>
                                           THEN Append(evidence_images, evidence_path)
                                           ELSE evidence_images
                     /\ samples' = Append(samples, OffsetSample(pdf_page, detected_label))
                     /\ rendered' = Append(rendered, TRUE)
    /\ UNCHANGED <<pc, total_pages, num_samples, skip_first, sample_pages,
                   offset_result, mapping, batch_vars, aux_vars>>

\* After the loop: the consensus and the mapping that is returned.
BuildMapping ==
    /\ pc = "loop"
    /\ Len(rendered) = Len(sample_pages)
    /\ offset_result' = calculate_offset_from_samples(samples)
    /\ mapping' = create_offset_mapping("ADAMA", "report.pdf", offset_result',
                                        evidence_images, "ocr_auto")
                  @@ [company_key |-> <<"ADAMA", "2024">>, pdf_path |-> "report.pdf"]
    /\ pc' = "done"
    /\ UNCHANGED <<total_pages, num_samples, skip_first, sample_pages, samples,
                   evidence_images, rendered, batch_vars, aux_vars>>

Next == SelectPages \/ ProcessSample \/ BuildMapping

Spec == Init /\ [][Next]_vars

(***************************************************************************)
(* SpecRecognizer: detect_labeled_page_number on one page image.           *)
(***************************************************************************)
\* The words the engine may report: a blank, text and a number in the
\* header, a number in the footer, and numbers that are no candidate: in
\* the body, of low confidence, out of range.
WordSet ==
    {[kind |-> "blank",  value |-> 0, top |-> 0, conf |-> -1],
     [kind |-> "other",  value |-> 0, top |-> 0, conf |-> 96],
     [kind |-> "digits", value |-> 3, top |-> 0, conf |-> 96],
     [kind |-> "digits", value |-> 5, top |-> ImageHeight - 1, conf |-> 51],
     [kind |-> "digits", value |-> 7, top |-> ImageHeight \div 2, conf |-> 96],
     [kind |-> "digits", value |-> 9, top |-> ImageHeight - 1, conf |-> 50],
     [kind |-> "digits", value |-> 0, top |-> 0, conf |-> 96]}

\* The numbers the patterns may capture.
CapturedSet == {0, 4, 6, MaxLabelValue + 1}

InitRecognizer ==
    /\ pc = "image"
    /\ ocr \in [raises   : BOOLEAN,
                words    : UNION {[1..n -> WordSet] : n \in 0..MaxWords},
                captured : UNION {[1..n -> CapturedSet] : n \in 0..MaxCaptured}]
    /\ detected = None
    /\ total_pages = 0
    /\ num_samples = 0
    /\ skip_first = DefaultSkipFirst
    /\ sample_pages = <<>>
    /\ samples = <<>>
    /\ evidence_images = <<>>
    /\ offset_result = None
    /\ mapping = None
    /\ rendered = <<>>
    /\ NoBatch /\ NoSave /\ NoReview

DetectLabel ==
    /\ pc = "image"
    /\ detected' = detect_labeled_page_number(ocr)
    /\ pc' = "detected"
    /\ UNCHANGED <<total_pages, num_samples, skip_first, sample_pages, samples,
                   evidence_images, offset_result, mapping, rendered, batch_vars,
                   ocr, save_vars, review_vars>>

NextRecognizer == DetectLabel

SpecRecognizer == InitRecognizer /\ [][NextRecognizer]_vars

(***************************************************************************)
(* SpecBatch: detect_offsets.process_all_companies, one document of the    *)
(* company folders a step (the whole body of the loop over pdfs).          *)
(***************************************************************************)
\* The documents of a company folder holding n PDFs.
Folder(company, n) == [k \in 1..n |-> [company |-> company, name |-> <<"report", k>>]]

\* The documents of the folders of two companies, in processing order.
BatchPdfs ==
    {Folder("ADAMA", n[1]) \o Folder("BASF", n[2]) :
        n \in {c \in (0..MaxPdfs) \X (0..MaxPdfs) : c[1] + c[2] <= MaxPdfs}}

\* What the recognizer may read off the sample pages of a document: per
\* page nothing (None), the page's own number or the number before it; one
\* sequence of readings for each multiset of them.
BatchLabels ==
    LET Rank(l) == IF l = None THEN 0 ELSE l[1] + 1 IN
    {labels \in [1..DefaultNumSamples -> {None, Some(0), Some(1)}] :
        \A j, k \in 1..DefaultNumSamples : j < k => Rank(labels[j]) <= Rank(labels[k])}

\* The mappings process_single_pdf may return for a document of
\* MaxBatchPages pages, by what is read off its sample pages.
BatchMappings ==
    [pdf_path \in UNION {{q[k] : k \in 1..Len(q)} : q \in BatchPdfs} |->
        {process_single_pdf(pdf_path, pdf_path.company, DefaultNumSamples,
                            MaxBatchPages, labels) : labels \in BatchLabels}]

InitBatch ==
    /\ pc = "batch"
    /\ pdfs \in BatchPdfs
    /\ all_mappings = <<>>
    /\ flagged_items = <<>>
    /\ outcomes = <<>>
    /\ total_pages = 0
    /\ num_samples = DefaultNumSamples
    /\ skip_first = DefaultSkipFirst
    /\ sample_pages = <<>>
    /\ samples = <<>>
    /\ evidence_images = <<>>
    /\ offset_result = None
    /\ mapping = None
    /\ rendered = <<>>
    /\ NoOcr /\ NoSave /\ NoReview

\* The body of the loop over pdfs, on the next document.
ProcessPdf ==
    /\ pc = "batch"
    /\ Len(outcomes) < Len(pdfs)
    /\ LET pdf_path == pdfs[Len(outcomes) + 1] IN
       \/ \* an exception escapes process_single_pdf
          /\ mapping' = None
          /\ all_mappings' = OnException(all_mappings)
          /\ UNCHANGED flagged_items
          /\ outcomes' = Append(outcomes, [pdf_path |-> pdf_path, result |-> "raised"])
       \/ \E result \in {process_single_pdf(pdf_path, pdf_path.company,
                             DefaultNumSamples, 0, <<>>)} \cup BatchMappings[pdf_path] :
             /\ mapping' = result
             /\ IF result # None
                THEN /\ all_mappings' = Accumulate(all_mappings, result)
                     /\ flagged_items' =
                           IF ShouldFlag(result)
                           THEN Append(flagged_items, FlaggedItem(pdf_path.company, result))
                           ELSE flagged_items
                     /\ outcomes' = Append(outcomes,
                           [pdf_path |-> pdf_path, result |-> "mapping",
                            confidence |-> result[1].confidence])
                ELSE /\ UNCHANGED <<all_mappings, flagged_items>>
                     /\ outcomes' = Append(outcomes,
                           [pdf_path |-> pdf_path, result |-> "no mapping"])
    /\ UNCHANGED <<pc, pdfs, total_pages, num_samples, skip_first, sample_pages,
                   samples, evidence_images, offset_result, rendered, aux_vars>>

\* return all_mappings, flagged_items
ReturnBatch ==
    /\ pc = "batch"
    /\ Len(outcomes) = Len(pdfs)
    /\ pc' = "returned"
    /\ UNCHANGED <<total_pages, num_samples, skip_first, sample_pages, samples,
                   evidence_images, offset_result, mapping, rendered, batch_vars, aux_vars>>

NextBatch == ProcessPdf \/ ReturnBatch

SpecBatch == InitBatch /\ [][NextBatch]_vars

(***************************************************************************)
(* SpecSave: detect_offsets.save_results on what process_all_companies     *)
(* returns for two company folders of at most one document each, then the  *)
(* mapping file read back.                                                 *)
(***************************************************************************)
\* The companies with a mapping, in processing order (the order of the
\* dict, and the sorted order of their keys).
CompanyOrder == <<"ADAMA", "BASF">>

Values(mappings) ==
    LET keys == SelectSeq([k \in 1..Len(CompanyOrder) |-> <<CompanyOrder[k], YEAR>>],
                          LAMBDA key : key \in DOMAIN mappings)
    IN  [k \in 1..Len(keys) |-> mappings[keys[k]]]

\* What process_all_companies may return: per company no mapping or the
\* mapping of its document.
BatchReturns ==
    LET Returned(a, b) ==
            LET first == IF a = None THEN <<>> ELSE Accumulate(<<>>, a)
            IN  IF b = None THEN first ELSE Accumulate(first, b)
    IN  {Returned(a, b) :
            a \in {None} \cup BatchMappings[Folder(CompanyOrder[1], 1)[1]],
            b \in {None} \cup BatchMappings[Folder(CompanyOrder[2], 1)[1]]}

InitSave ==
    /\ pc = "save"
    /\ all_mappings \in BatchReturns
    /\ flagged_items =
          LET flagged == SelectSeq(Values(all_mappings), LAMBDA m : ShouldFlag(Some(m)))
          IN  [k \in 1..Len(flagged) |-> FlaggedItem(flagged[k].company_key[1], Some(flagged[k]))]
    /\ pdfs = <<>>
    /\ outcomes = <<>>
    /\ total_pages = 0
    /\ num_samples = DefaultNumSamples
    /\ skip_first = DefaultSkipFirst
    /\ sample_pages = <<>>
    /\ samples = <<>>
    /\ evidence_images = <<>>
    /\ offset_result = None
    /\ mapping = None
    /\ rendered = <<>>
    /\ NoOcr /\ NoSave /\ NoReview

\* The lines of the report on the confidence distribution:
\* count / total_documents * 100 for each confidence.
ConfidenceLines(summary) ==
    [k \in 1..Len(summary.confidence_distribution) |->
        [conf    |-> summary.confidence_distribution[k].conf,
         count   |-> summary.confidence_distribution[k].count,
         percent |-> FloatMul(100, TrueDiv(summary.confidence_distribution[k].count,
                                           summary.total_documents))]]

\* The detailed results of the report, one entry per mapping.
DetailedResults(mappings) ==
    [k \in 1..Len(Values(mappings)) |->
        [f \in {"company_key", "document_name", "offset", "confidence", "samples_agreed",
                "samples_processed", "warning", "message"} \cap DOMAIN Values(mappings)[k] |->
            Values(mappings)[k][f]]]

save_results ==
    /\ pc = "save"
    /\ mappings_file' = Some(json_dump(all_mappings))
    /\ stats' = Some(generate_summary_statistics(Values(all_mappings)))
    /\ IF stats'[1].total_documents = 0
       THEN \* ZeroDivisionError in the first line of the confidence distribution
            /\ report_file' = Some([total_documents |-> 0, complete |-> FALSE])
            /\ UNCHANGED flagged_file
            /\ pc' = "save raised"
       ELSE /\ report_file' = Some([total_documents |-> stats'[1].total_documents,
                                    confidence      |-> ConfidenceLines(stats'[1]),
                                    documents_with_offset |-> stats'[1].documents_with_offset,
                                    documents_no_offset   |-> stats'[1].documents_no_offset,
                                    offset_statistics |->
                                        IF "offset_statistics" \in DOMAIN stats'[1]
                                        THEN Some(stats'[1].offset_statistics) ELSE None,
                                    details  |-> DetailedResults(all_mappings),
                                    complete |-> TRUE])
            /\ flagged_file' = IF flagged_items # <<>> THEN Some(flagged_items) ELSE None
            /\ pc' = "saved"
    /\ UNCHANGED <<total_pages, num_samples, skip_first, sample_pages, samples,
                   evidence_images, offset_result, mapping, rendered, batch_vars,
                   loaded, ocr_vars, review_vars>>

\* json.load of page_offset_mappings.json
LoadMappings ==
    /\ pc \in {"saved", "save raised"}
    /\ mappings_file # None
    /\ loaded' = Some(json_load(mappings_file[1]))
    /\ pc' = "loaded"
    /\ UNCHANGED <<total_pages, num_samples, skip_first, sample_pages, samples,
                   evidence_images, offset_result, mapping, rendered, batch_vars,
                   mappings_file, stats, report_file, flagged_file, ocr_vars, review_vars>>

NextSave == save_results \/ LoadMappings

SpecSave == InitSave /\ [][NextSave]_vars

(***************************************************************************)
(* SpecReview: review_duplicates over one deduped file of two questions,   *)
(* then apply_review with the review file it wrote.                        *)
(***************************************************************************)
MaxSnippets == 3

\* "a b", "A  b " (the same words in other case and spacing) and "c".
Texts == {<<"a", " ", "b">>, <<"A", " ", " ", "b", " ">>, <<"c">>}

\* --confidence-threshold: the default 0.0, and 0.5
Thresholds == {0, 5}

\* The second question is named by question_id or by a numeric question_number.
QuestionNames ==
    {<<[question_id |-> Some(PyStr(<<"Q", "1">>)), question_number |-> None],
       [question_id |-> Some(PyStr(<<"Q", "2">>)), question_number |-> None]>>,
     <<[question_id |-> Some(PyStr(<<"Q", "1">>)), question_number |-> None],
       [question_id |-> None, question_number |-> Some(PyInt(2))]>>}

DedupedFile(names, texts, first) ==
    [path |-> "ADAMA_deduped.json",
     analysis_results |->
        [q \in 1..2 |->
           [disclosures |->
               [k \in 1..(IF q = 1 THEN first ELSE Len(texts) - first) |->
                   [snippet_id |-> (IF q = 1 THEN k ELSE first + k),
                    text       |-> texts[IF q = 1 THEN k ELSE first + k]]]]
           @@ names[q]]]

\* Every file of two questions with at most MaxSnippets snippets in all.
DedupedFiles ==
    {DedupedFile(c[1], c[2], c[3]) :
        c \in {c \in QuestionNames \X (UNION {[1..n -> Texts] : n \in 0..MaxSnippets})
                        \X (0..MaxSnippets) : c[3] <= Len(c[2])}}

InitReview ==
    /\ pc = "review"
    /\ data \in DedupedFiles
    /\ confidence_threshold \in Thresholds
    /\ review_file = <<>>
    /\ review_map = <<>>
    /\ output_data = <<>>
    /\ counts = <<>>
    /\ total_pages = 0
    /\ num_samples = DefaultNumSamples
    /\ skip_first = DefaultSkipFirst
    /\ sample_pages = <<>>
    /\ samples = <<>>
    /\ evidence_images = <<>>
    /\ offset_result = None
    /\ mapping = None
    /\ rendered = <<>>
    /\ NoBatch
    /\ NoOcr /\ NoSave

\* review_duplicates.main: the review file, one line for each duplicate group
ReviewDuplicates ==
    /\ pc = "review"
    /\ review_file' \in ReviewRecords(iter_duplicate_groups(data))
    /\ pc' = "reviewed"
    /\ UNCHANGED <<total_pages, num_samples, skip_first, sample_pages, samples,
                   evidence_images, offset_result, mapping, rendered, batch_vars,
                   ocr_vars, save_vars, data, confidence_threshold, review_map,
                   output_data, counts>>

\* apply_review.main: load_review_file, then process_file on the deduped file
ApplyReview ==
    /\ pc = "reviewed"
    /\ review_map' = load_review_file(review_file)
    /\ LET done == process_file(data, review_map', confidence_threshold) IN
       /\ output_data' = done.data
       /\ counts' = done.counts
    /\ pc' = "applied"
    /\ UNCHANGED <<total_pages, num_samples, skip_first, sample_pages, samples,
                   evidence_images, offset_result, mapping, rendered, batch_vars,
                   ocr_vars, save_vars, data, confidence_threshold, review_file>>

NextReview == ReviewDuplicates \/ ApplyReview

SpecReview == InitReview /\ [][NextReview]_vars

(***************************************************************************)
(* Properties.  The sample data is read off the input samples, not off the *)
(* result.                                                                 *)
(***************************************************************************)
Sampled == pc = "sampled"

Calculated == pc \in {"calculated", "mapped"}

\* The indices of the samples with a detected label.
ValidIdx == {k \in 1..Len(samples) : samples[k].detected_label # None}

SampleOffset(k) == samples[k].pdf_page - samples[k].detected_label[1]

\* The number of valid samples of offset o, and the first of them.
CountOf(o) == Cardinality({k \in ValidIdx : SampleOffset(k) = o})

FirstOf(o) ==
    CHOOSE k \in ValidIdx :
        SampleOffset(k) = o /\ \A j \in ValidIdx : j < k => SampleOffset(j) # o

\* usable_start + floor(usable_range * (i+1) / (num_samples+1)), i = 0..num_samples-1
EvenlySpacedPages ==
    [k \in 1..num_samples |->
        (skip_first + 1) + ((total_pages - (skip_first + 1)) * k) \div (num_samples + 1)]

\* C1: in every mapping process_single_pdf returns, evidence_images has the
\* length of evidence and its i-th path is the image of the i-th sample.
C1_EvidenceImagesAligned ==
    (pc = "done" /\ mapping # None) =>
        /\ Len(mapping.evidence_images) = Len(mapping.evidence)
        /\ \A k \in 1..Len(mapping.evidence_images) :
              k <= Len(mapping.evidence) =>
                 /\ mapping.evidence_images[k].sample_num = k
                 /\ mapping.evidence_images[k].pdf_page = mapping.evidence[k].pdf_page

\* C2: the mapping built from a result without offset carries the
\* validation record {is_valid: false, message: "No offset detected"}.
C2_ValidationOnAbsentOffset ==
    (pc = "mapped" /\ offset_result.offset = None) =>
        /\ "validation" \in DOMAIN mapping
        /\ mapping.validation = [is_valid |-> validate_offset(None)[1],
                                 message  |-> validate_offset(None)[2]]

C5_EveryUsablePage ==
    (Sampled /\ total_pages > skip_first /\ total_pages - skip_first < num_samples) =>
        /\ sample_pages = [k \in 1..(total_pages - skip_first) |-> skip_first + k]
        /\ \A j, k \in 1..Len(sample_pages) : j < k => sample_pages[j] < sample_pages[k]

C5_Witness ==
    /\ Sampled
    /\ total_pages = 7 /\ num_samples = 3 /\ skip_first = 5
    /\ sample_pages = <<6, 7>>

\* C6: with a valid sample, no offset occurs more often among the valid
\* samples than the consensus offset, and every other offset of the same
\* count first occurs later in the sample sequence.
C6_ConsensusIsFirstMode ==
    (Calculated /\ ValidIdx # {}) =>
        /\ offset_result.offset # None
        /\ CountOf(offset_result.offset[1]) > 0
        /\ \A k \in ValidIdx :
              /\ CountOf(SampleOffset(k)) <= CountOf(offset_result.offset[1])
              /\ (/\ SampleOffset(k) # offset_result.offset[1]
                  /\ CountOf(SampleOffset(k)) = CountOf(offset_result.offset[1]))
                 => FirstOf(offset_result.offset[1]) < FirstOf(SampleOffset(k))

\* A tie for the highest count, won by the larger offset because it came first.
C6_Witness ==
    /\ Calculated
    /\ ValidIdx # {}
    /\ \E k \in ValidIdx :
          /\ SampleOffset(k) < offset_result.offset[1]
          /\ CountOf(SampleOffset(k)) = CountOf(offset_result.offset[1])
          /\ FirstOf(offset_result.offset[1]) < k

C8_NoValidSamples ==
    Calculated =>
        /\ ValidIdx = {} =>
              /\ offset_result.offset = None
              /\ offset_result.confidence = "NONE"
              /\ offset_result.samples_agreed = 0
              /\ "message" \in DOMAIN offset_result
              /\ Len(offset_result.evidence) = Len(samples)
              /\ \A k \in 1..Len(offset_result.evidence) :
                    offset_result.evidence[k].offset = None
        /\ offset_result.confidence = "NONE" => ValidIdx = {}

C8_Witness ==
    /\ Calculated
    /\ Len(samples) = 2
    /\ ValidIdx = {}
    /\ offset_result.confidence = "NONE"
    /\ Len(offset_result.evidence) = 2

\* C9: the evidence lists every input sample in order with its pdf_page,
\* detected_label and offset, and every entry carries an agreement flag that
\* is true iff the sample's offset is the consensus offset (false for every
\* sample without a label).
C9_EvidenceWithAgreementFlag ==
    Calculated =>
        /\ Len(offset_result.evidence) = Len(samples)
        /\ \A k \in 1..Len(offset_result.evidence) :
              /\ k <= Len(samples)
              /\ offset_result.evidence[k].pdf_page = samples[k].pdf_page
              /\ offset_result.evidence[k].detected_label = samples[k].detected_label
              /\ offset_result.evidence[k].offset = samples[k].offset
              /\ "agrees_with_consensus" \in DOMAIN offset_result.evidence[k]
              /\ offset_result.evidence[k].agrees_with_consensus
                    <=> (k \in ValidIdx /\ offset_result.offset = Some(SampleOffset(k)))

\* C10: len(evidence) = samples_processed = the number of input samples.
C10_EvidencePerSample ==
    Calculated =>
        /\ Len(offset_result.evidence) = offset_result.samples_processed
        /\ offset_result.samples_processed = Len(samples)

C10_Witness ==
    /\ Calculated
    /\ Len(samples) = 3
    /\ ValidIdx # {}
    /\ ValidIdx # 1..3
    /\ Len(offset_result.evidence) = 3
    /\ offset_result.samples_processed = 3

\* The sum of the counts of a Counter.
RECURSIVE SumCounts(_)
SumCounts(c) == IF c = <<>> THEN 0 ELSE Head(c).count + SumCounts(Tail(c))

\* The count a Counter holds under key x (0 without the key).
CountUnder(c, x) ==
    IF \E k \in 1..Len(c) : c[k].key = x
    THEN c[CHOOSE k \in 1..Len(c) : c[k].key = x].count
    ELSE 0

\* C11: the offset of the result is present iff some sample has a detected
\* label.
C11_OffsetIffValidSample ==
    Calculated => (offset_result.offset # None <=> ValidIdx # {})

C11_Witness ==
    /\ Calculated
    /\ Len(samples) = 3
    /\ Cardinality(ValidIdx) = 1
    /\ offset_result.offset # None

\* C12: every result carries offset_distribution and samples_valid, the
\* counts of offset_distribution sum to samples_valid, and samples_valid is
\* the number of samples with an offset, also when no sample is valid.
C12_DistributionSumsToValid ==
    Calculated =>
        /\ "offset_distribution" \in DOMAIN offset_result
        /\ "samples_valid" \in DOMAIN offset_result
        /\ SumCounts(offset_result.offset_distribution) = offset_result.samples_valid
        /\ offset_result.samples_valid = Cardinality(ValidIdx)

\* C13: with an offset present, samples_agreed is the count of
\* offset_distribution under the offset, and the number of evidence entries
\* flagged as agreeing with the consensus.
C13_AgreedIsDistributionAtOffset ==
    (Calculated /\ offset_result.offset # None) =>
        /\ offset_result.samples_agreed
              = CountUnder(offset_result.offset_distribution, offset_result.offset[1])
        /\ offset_result.samples_agreed
              = Cardinality({k \in 1..Len(offset_result.evidence) :
                                offset_result.evidence[k].agrees_with_consensus})

C13_Witness ==
    /\ Calculated
    /\ Len(samples) = 3
    /\ offset_result.offset # None
    /\ offset_result.samples_agreed = 1
    /\ Len(offset_result.offset_distribution) = 2

\* C14: the result has a warning iff its confidence is LOW or MEDIUM (never
\* when HIGH), and the warning names samples_agreed and samples_valid.
C14_WarningIffLowOrMedium ==
    Calculated =>
        /\ "warning" \in DOMAIN offset_result
              <=> offset_result.confidence \in {"LOW", "MEDIUM"}
        /\ "warning" \in DOMAIN offset_result =>
              /\ offset_result.warning[2] = offset_result.samples_agreed
              /\ offset_result.warning[3] = offset_result.samples_valid
              /\ offset_result.warning[2] = CountOf(offset_result.offset[1])
              /\ offset_result.warning[3] = Cardinality(ValidIdx)

C14_Witness ==
    /\ Calculated
    /\ offset_result.confidence = "MEDIUM"
    /\ offset_result.warning = <<"Medium confidence", 2, 3>>

\* C15: the validation of a present offset is invalid iff |offset| > 50;
\* within the limit it is valid with a message for a negative, a zero or a
\* positive offset (0, -50 and 50 are valid, 75 is invalid).
C15_ValidationOfPresentOffset ==
    (pc = "mapped" /\ mapping.offset # None) =>
        LET o == mapping.offset[1]
            v == mapping.validation
        IN  /\ ~v.is_valid <=> Abs(o) > 50
            /\ ~v.is_valid => v.message = <<"Offset exceeds maximum", o, 50>>
            /\ (v.is_valid /\ o < 0) => v.message = <<"Negative offset", o>>
            /\ (v.is_valid /\ o = 0) => v.message = <<"Zero offset">>
            /\ (v.is_valid /\ o > 0) => v.message = <<"Positive offset", o>>
            /\ o \in {0, -50, 50} => v.is_valid
            /\ o = 75 => ~v.is_valid

C15_Witness ==
    /\ pc = "mapped"
    /\ mapping.offset = Some(-50)
    /\ mapping.validation = [is_valid |-> TRUE, message |-> <<"Negative offset", -50>>]

\* C16: the mapping has the offset, the confidence, samples_processed,
\* samples_valid, samples_agreed and the evidence of the result it was built
\* from, unchanged.
C16_MappingCopiesResult ==
    pc = "mapped" =>
        \A f \in {"offset", "confidence", "samples_processed", "samples_valid",
                  "samples_agreed", "evidence"} :
            f \in DOMAIN offset_result =>
                /\ f \in DOMAIN mapping
                /\ mapping[f] = offset_result[f]

\* C17: a page that cannot be rendered is recorded as a sample without label
\* and the loop goes on: the samples are one per selected page, in sampler
\* order, whichever renders fail, and a document with a readable page count
\* gets a mapping built from all of them.
C17_FailedRenderRecorded ==
    /\ Len(samples) = Len(rendered)
    /\ Len(samples) <= Len(sample_pages)
    /\ \A k \in 1..Len(samples) :
          /\ samples[k].pdf_page = sample_pages[k]
          /\ ~rendered[k] => samples[k] = OffsetSample(sample_pages[k], None)
    /\ (pc = "done" /\ total_pages > 0) =>
          /\ Len(samples) = Len(sample_pages)
          /\ mapping # None
          /\ mapping.samples_processed = Len(sample_pages)
          /\ Len(mapping.evidence) = Len(sample_pages)
          /\ \A k \in 1..Len(sample_pages) :
                /\ mapping.evidence[k].pdf_page = sample_pages[k]
                /\ ~rendered[k] => mapping.evidence[k].detected_label = None

C17_Witness ==
    /\ pc = "done"
    /\ rendered = <<FALSE, TRUE, FALSE>>
    /\ samples[2].detected_label # None
    /\ mapping # None
    /\ mapping.samples_processed = 3

\* The batch: the indices of the documents that got a mapping, the company
\* key of a document, and the last document of a key that got a mapping.
Mapped == {k \in 1..Len(outcomes) : outcomes[k].result = "mapping"}

KeyOf(k) == <<outcomes[k].pdf_path.company, YEAR>>

LastMapped(key) ==
    CHOOSE k \in Mapped : KeyOf(k) = key /\ \A j \in Mapped : KeyOf(j) = key => j <= k

\* A step of the batch that processed a document.
Processed == Len(outcomes') = Len(outcomes) + 1

\* C18: a document without readable page count, or whose processing raises,
\* contributes no mapping and leaves the mappings and the flagged entries
\* as they were; the batch returns only after every document was processed.
C18_FailureSkipsOneDocument ==
    /\ [](/\ Len(outcomes) <= Len(pdfs)
          /\ \A k \in 1..Len(outcomes) : outcomes[k].pdf_path = pdfs[k]
          /\ pc = "returned" => Len(outcomes) = Len(pdfs)
          /\ DOMAIN all_mappings = {KeyOf(k) : k \in Mapped}
          /\ \A k \in (1..Len(outcomes)) \ Mapped, key \in DOMAIN all_mappings :
                all_mappings[key].pdf_path # outcomes[k].pdf_path)
    /\ [][(Processed /\ outcomes'[Len(outcomes')].result # "mapping") =>
             /\ mapping' = None
             /\ all_mappings' = all_mappings
             /\ flagged_items' = flagged_items]_vars

C18_Witness ==
    /\ pc = "returned"
    /\ Len(outcomes) = 3
    /\ outcomes[1].result = "mapping"
    /\ outcomes[2].result = "raised"
    /\ outcomes[3].result = "mapping"
    /\ DOMAIN all_mappings = {<<"ADAMA", YEAR>>, <<"BASF", YEAR>>}
    /\ all_mappings[<<"ADAMA", YEAR>>].pdf_path = pdfs[1]

\* C19: the flagged entries are, in order, the documents that got a mapping
\* whose confidence is not HIGH, each with the document, the confidence and
\* the warning (LOW, MEDIUM) or the message (NONE) of its mapping as reason.
C19_FlaggedIffNotHigh ==
    LET flagged == SelectSeq([k \in 1..Len(outcomes) |-> k],
                             LAMBDA k : /\ outcomes[k].result = "mapping"
                                        /\ outcomes[k].confidence # "HIGH")
    IN  /\ Len(flagged_items) = Len(flagged)
        /\ \A j \in 1..Len(flagged) :
              /\ flagged_items[j].company = outcomes[flagged[j]].pdf_path.company
              /\ flagged_items[j].document = outcomes[flagged[j]].pdf_path.name
              /\ flagged_items[j].confidence = outcomes[flagged[j]].confidence
              /\ flagged_items[j].confidence = "NONE" =>
                    flagged_items[j].reason = <<"No labeled page numbers detected">>
              /\ flagged_items[j].confidence = "LOW" =>
                    flagged_items[j].reason[1] = "Low confidence"
              /\ flagged_items[j].confidence = "MEDIUM" =>
                    flagged_items[j].reason[1] = "Medium confidence"
        /\ (flagged # <<>> /\ flagged[Len(flagged)] = Len(outcomes)) =>
              /\ mapping # None
              /\ flagged_items[Len(flagged)].reason =
                    IF "warning" \in DOMAIN mapping[1]
                    THEN mapping[1].warning ELSE mapping[1].message

C19_Witness ==
    /\ pc = "returned"
    /\ Len(outcomes) = 3
    /\ outcomes[1].result = "mapping" /\ outcomes[1].confidence = "MEDIUM"
    /\ outcomes[2].result = "mapping" /\ outcomes[2].confidence = "HIGH"
    /\ outcomes[3].result = "mapping" /\ outcomes[3].confidence = "NONE"
    /\ Len(flagged_items) = 2
    /\ flagged_items[1].reason = <<"Medium confidence", 2, 3>>
    /\ flagged_items[2].reason = <<"No labeled page numbers detected">>

\* C20: all_mappings is keyed by (company, year); the entry under a key is
\* the mapping of the last document of that key that got one, whole, and a
\* step changes at most that entry; merge_offset_mappings on an entry and
\* the new mapping keeps the new one under its key.
C20_LastWriteWins ==
    /\ [](/\ DOMAIN all_mappings = {KeyOf(k) : k \in Mapped}
          /\ \A key \in DOMAIN all_mappings :
                /\ all_mappings[key].company_key = key
                /\ all_mappings[key].pdf_path = outcomes[LastMapped(key)].pdf_path
                /\ all_mappings[key].document_name = outcomes[LastMapped(key)].pdf_path.name
                /\ all_mappings[key].confidence = outcomes[LastMapped(key)].confidence
          /\ (outcomes # <<>> /\ Len(outcomes) \in Mapped) =>
                all_mappings[KeyOf(Len(outcomes))] = mapping[1])
    /\ [][(Processed /\ mapping' # None) =>
             LET new == mapping'[1].company_key IN
             /\ all_mappings' = [key \in DOMAIN all_mappings \cup {new} |->
                                    IF key = new THEN mapping'[1] ELSE all_mappings[key]]
             /\ \A key \in DOMAIN all_mappings :
                   merge_offset_mappings(<<all_mappings[key], mapping'[1]>>)
                      = [k \in {key, new} |->
                            IF k = new THEN mapping'[1] ELSE all_mappings[key]]]_vars

C20_Witness ==
    /\ pc = "returned"
    /\ Len(outcomes) = 3
    /\ \A k \in 1..3 : outcomes[k].result = "mapping" /\ outcomes[k].pdf_path.company = "ADAMA"
    /\ outcomes[1].confidence = "LOW"
    /\ outcomes[2].confidence = "MEDIUM"
    /\ outcomes[3].confidence = "HIGH"
    /\ DOMAIN all_mappings = {<<"ADAMA", YEAR>>}
    /\ all_mappings[<<"ADAMA", YEAR>>] = mapping[1]
    /\ "warning" \notin DOMAIN all_mappings[<<"ADAMA", YEAR>>]

\* The candidates of the positional strategy: the in-range digit strings
\* of confidence above 50 in the top or the bottom tenth of the page.
PositionalCandidates ==
    SelectSeq(ocr.words,
              LAMBDA w : /\ w.kind = "digits"
                         /\ w.top * 10 <= ImageHeight \/ w.top * 10 >= ImageHeight * 9
                         /\ w.value \in 1..9999
                         /\ w.conf > 50)

PatternCandidates == SelectSeq(ocr.captured, LAMBDA n : n \in 1..9999)

\* C21: the result is the first positional candidate when there is one,
\* otherwise the first pattern candidate, and it is absent iff there is no
\* candidate at all or the recognition raises.
C21_PositionalBeforePattern ==
    pc = "detected" =>
        /\ detected = None <=>
              (ocr.raises \/ (PositionalCandidates = <<>> /\ PatternCandidates = <<>>))
        /\ (~ocr.raises /\ PositionalCandidates # <<>>) =>
              detected = Some(PositionalCandidates[1].value)
        /\ (~ocr.raises /\ PositionalCandidates = <<>> /\ PatternCandidates # <<>>) =>
              detected = Some(PatternCandidates[1])

C21_Witness ==
    /\ pc = "detected"
    /\ ~ocr.raises
    /\ ocr.captured = <<4, 6>>
    /\ Len(ocr.words) = 2 /\ ocr.words[1].value = 7 /\ ocr.words[2].value = 5
    /\ detected = Some(5)

\* C22: the mapping file read back has, for every mapping, every field as
\* it was saved: the offset an int or None, and offset_distribution with
\* the same int keys and counts.
C22_JsonRoundTrip ==
    pc = "loaded" =>
        /\ DOMAIN loaded[1] = DOMAIN all_mappings
        /\ \A key \in DOMAIN all_mappings :
              /\ DOMAIN loaded[1][key] = DOMAIN all_mappings[key]
              /\ \A f \in DOMAIN all_mappings[key] :
                    IF f = "offset_distribution"
                    THEN loaded[1][key][f] =
                            [k \in 1..Len(all_mappings[key][f]) |->
                                [key   |-> PyInt(all_mappings[key][f][k].key),
                                 count |-> all_mappings[key][f][k].count]]
                    ELSE loaded[1][key][f] = all_mappings[key][f]

\* C28: save_results does not raise, and writes the mapping file and the
\* whole report, for every returned dict of mappings, the empty one
\* included.
C28_SaveCompletes ==
    /\ pc # "save raised"
    /\ pc = "saved" =>
          /\ mappings_file # None
          /\ report_file # None
          /\ report_file[1].complete

\* C29: documents_with_offset is the number of mappings with an offset (the
\* number of offsets that enter offset_statistics), documents_no_offset the
\* number of mappings without, and the two sum to total_documents.
C29_DocumentsWithOffset ==
    pc = "saved" =>
        LET with    == {key \in DOMAIN all_mappings : all_mappings[key].offset # None}
            without == {key \in DOMAIN all_mappings : all_mappings[key].offset = None}
        IN  /\ stats[1].documents_with_offset = Cardinality(with)
            /\ stats[1].documents_no_offset = Cardinality(without)
            /\ stats[1].documents_with_offset + stats[1].documents_no_offset
                  = stats[1].total_documents
            /\ stats[1].total_documents = Cardinality(DOMAIN all_mappings)
            /\ "offset_statistics" \in DOMAIN stats[1] <=> with # {}


(***************************************************************************)
(* C25: for total_pages >= 1, num_samples >= 1 and skip_first >= 0 every   *)
(* page select_sample_pages returns lies in 1..total_pages.                *)
(* Refuted: with total_pages = 1 and skip_first >= 1 the usable range is   *)
(* not positive and the midpoint total_pages // 2 = 0 is returned.         *)
(***************************************************************************)
C25_SampledPagesInDocument ==
    (Sampled /\ total_pages >= 1) =>
        \A k \in 1..Len(sample_pages) : sample_pages[k] \in 1..total_pages

(***************************************************************************)
(* C26: for total_pages >= 0, num_samples >= 1 and skip_first >= 0         *)
(* select_sample_pages returns a strictly ascending sequence of at most    *)
(* num_samples pages.                                                      *)
(* Refuted: select_sample_pages(23, 21, 0) has step = 22 / 22 and the      *)
(* product 15 * step, truncated, is 14, so page 15 is returned twice.      *)
(***************************************************************************)
C26_StrictlyAscendingSamples ==
    Sampled =>
        /\ Len(sample_pages) <= num_samples
        /\ \A k \in 1..(Len(sample_pages) - 1) : sample_pages[k] < sample_pages[k + 1]


(***************************************************************************)
(* C27: when process_all_companies returns, every flagged entry refers to  *)
(* a document whose mapping is present under "<company>_<year>" with that  *)
(* document name and confidence, however many PDFs a company folder holds. *)
(* Refuted: the second PDF of a folder replaces the mapping of the first   *)
(* under the same key while the first PDF's flagged entry stays.           *)
(***************************************************************************)
C27_FlaggedEntriesMapped ==
    pc = "returned" =>
        \A k \in 1..Len(flagged_items) :
            LET key == <<flagged_items[k].company, YEAR>> IN
            /\ key \in DOMAIN all_mappings
            /\ all_mappings[key].document_name = flagged_items[k].document
            /\ all_mappings[key].confidence = flagged_items[k].confidence


(***************************************************************************)
(* Cross-question review: the questions of the file before and after       *)
(* process_file.                                                           *)
(***************************************************************************)
Applied == pc = "applied"

QuestionsOf == 1..Len(data.analysis_results)

Before(q) == data.analysis_results[q]

After(q) == output_data.analysis_results[q]

Annotated(q) == "cross_question_review" \in DOMAIN After(q)

\* The decisions the review file holds for question q on a snippet with the
\* same normalized text.
ReviewedDecisions(q, snippet) ==
    {d \in UNION {{r.llm_output.decisions[k] : k \in 1..Len(r.llm_output.decisions)} :
                     r \in {review_file[n] : n \in 1..Len(review_file)
                               \cap {n \in 1..Len(review_file) :
                                       normalize_text(review_file[n].snippet)
                                          = normalize_text(SnippetText(snippet))}}} :
        QidOf(Before(q)) # None /\ d.question_id = Str(QidOf(Before(q))[1])}

Received(q, snippet, d) ==
    /\ Annotated(q)
    /\ \E k \in 1..Len(After(q).cross_question_review.decisions) :
          LET entry == After(q).cross_question_review.decisions[k] IN
          /\ entry.snippet_id = snippet.snippet_id
          /\ entry.belongs = d.belongs
          /\ entry.confidence = d.confidence

\* The decision process_file finds for a snippet of question q, if any.
DecisionFor(q, snippet) ==
    IF QidOf(Before(q)) = None \/ QidOf(Before(q))[1] \notin DOMAIN review_map
    THEN None
    ELSE Decision(review_map, QidOf(Before(q))[1], SnippetText(snippet))

ActuallyRemoved(q) == Len(Before(q).disclosures) - Len(After(q).disclosures)

ReportedRemoved(q) ==
    IF After(q).cross_question_review.status = "needs_attention"
    THEN StrToNat(After(q).cross_question_review.summary[1])
    ELSE 0

(***************************************************************************)
(* C23: the decision for a snippet is looked up by (question_id,           *)
(* normalized snippet text): every snippet of a question whose normalized  *)
(* text equals that of a reviewed snippet for that question receives that  *)
(* decision.                                                               *)
(* Refuted: the review file holds the raw text of the group's first        *)
(* snippet and process_file looks the raw text of each snippet up in it.   *)
(***************************************************************************)
C23_DecisionByNormalizedText ==
    Applied =>
        \A q \in QuestionsOf : \A k \in 1..Len(Before(q).disclosures) :
            \A d \in ReviewedDecisions(q, Before(q).disclosures[k]) :
                Received(q, Before(q).disclosures[k], d)

(***************************************************************************)
(* C24: process_file removes a snippet exactly when a decision for that    *)
(* (question, snippet) says it does not belong and the decision's          *)
(* confidence is at least the threshold; the other snippets are kept in    *)
(* their order, and with threshold 0 every snippet decided not to belong   *)
(* is removed.                                                             *)
(* Refuted: a decision without a confidence removes the snippet whatever   *)
(* the threshold.                                                          *)
(***************************************************************************)
C24_RemovedIffConfidentNotBelongs ==
    Applied =>
        \A q \in QuestionsOf :
            /\ After(q).disclosures =
                  SelectSeq(Before(q).disclosures,
                     LAMBDA snippet :
                        LET d == DecisionFor(q, snippet) IN
                        ~(/\ d # None
                          /\ ~d[1].belongs
                          /\ d[1].confidence # None
                          /\ d[1].confidence[1] >= confidence_threshold))
            /\ confidence_threshold = 0 =>
                  \A k \in 1..Len(After(q).disclosures) :
                     LET d == DecisionFor(q, After(q).disclosures[k]) IN
                     d = None \/ d[1].belongs

(***************************************************************************)
(* C30: for every question process_file annotates, the number of snippets  *)
(* the summary of cross_question_review reports as removed, and the        *)
(* needs_attention status, match the snippets removed from the question,   *)
(* and the numbers add up to snippets_removed, for every threshold.        *)
(* Refuted: summarize_decisions counts every decision that says "does not  *)
(* belong", also the ones whose snippet stayed for want of confidence.     *)
(***************************************************************************)
C30_SummaryMatchesRemoved ==
    Applied =>
        /\ \A q \in {q \in QuestionsOf : Annotated(q)} :
              /\ ReportedRemoved(q) = ActuallyRemoved(q)
              /\ (After(q).cross_question_review.status = "needs_attention")
                    <=> (ActuallyRemoved(q) > 0)
        /\ Sum([q \in QuestionsOf |-> IF Annotated(q) THEN ReportedRemoved(q) ELSE 0])
              = counts.snippets_removed

====
